---- MODULE Spec2Model ----
(***************************************************************************)
(* Model of minisource/scheduler: the coordination lock                    *)
(* (DistributedLocker), the dispatch loop and the execution state machine  *)
(* (Scheduler), the worker pool's queue, and the job, execution and        *)
(* history repositories they write through.                                *)
(*                                                                         *)
(* Time is a discrete clock `now` counted in seconds; the TTL of the       *)
(* leader key is counted in the same unit.  A database row is a record; a  *)
(* NULL column is Null.  SpecLock is the lock API called freely, Spec is   *)
(* the replicas sweeping and their workers, SpecExec is one process with   *)
(* executions entering through TriggerJob, SpecHistory is the history      *)
(* repository called concurrently, SpecPool is the worker pool on its own  *)
(* and SpecSize the same for every configured number of workers.           *)
(* SpecOverflow is a process whose queue is full when a job comes due,     *)
(* SpecJobs and SpecPause are the job service called while one process     *)
(* sweeps, SpecOrder is a sweep over more due jobs than one fetch returns, *)
(* SpecFailover is the replicas being killed and stopped, SpecSchedule is  *)
(* the two schedule functions on every input.  SpecCleanup is the cleanup  *)
(* of old executions on every table, SpecRetry is ExecuteWithRetry on      *)
(* every sequence of outcomes, SpecCreate is the job API on an empty       *)
(* table, SpecRace is Submit and Stop of the pool interleaved statement    *)
(* by statement, SpecLive is SpecExec with fair goroutines and SpecRefill  *)
(* is one process whose queue refills while a retry timer is pending.      *)
(***************************************************************************)
EXTENDS Integers, Sequences, FiniteSets, TLC

\* ---------------------------------------------------------------- bounds
NumReplicas == 2
LockTTL == 2
MaxTime == 2
MaxExecs == 2
MaxTriggers == 1
NumJobs == 1
NumCallers == 2
MaxCalls == 3
WorkerCount == 1
MaxRetriesBound == 2
MaxSchedule == 2
RetryDelaySeconds == 1
NumTenants == 2
PriorityLevels == 2

\* ------------------------------------------------------ program constants
DueLimit == 100
QueueFactor == 10
DefaultPriority == 5
DefaultMaxRetries == 3
DefaultTimeout == 30
DefaultRetryDelay == 60

Replicas == 1..NumReplicas
JobIds == 1..NumJobs
Workers == 1..WorkerCount
Tenants == 1..NumTenants
OwnerTenant == CHOOSE t \in Tenants : TRUE
NoOwner == 0
Null == 0 - 1

VARIABLES
    now,        \* wall clock
    lock,       \* the key lock:scheduler:leader in the coordination store
    holds,      \* holds[r]: AcquireLock returned true to r and r has not released since
    lapsed,     \* replicas whose key expired while they still believed they held it
    leaseLost,  \* some acquisition has expired before its holder released it
    ret,        \* ret[r]: what r's latest call of the lock API returned
    jobs,       \* table jobs: jobs[j] is the row of job j
    execs,      \* table job_executions: a sequence of rows, the id is the index
    history,    \* table job_history: history[j] is the day's row of job j
    pc,         \* pc[r]: where replica r is in processScheduledJobs
    todo,       \* todo[r]: the fetched jobs r has not dispatched yet
    queue,      \* queue[r]: taskQueue of r's worker pool
    worker,     \* worker[r][w]: the task worker w of r is processing, or Idle
    timers,     \* pending time.AfterFunc callbacks of handleExecutionFailure
    upsert,     \* history calls in flight on one (job_id, date), and its rows
    pool,       \* a WorkerPool from NewWorkerPool to the return of Stop
    api,        \* the service request being served, and the last response
    trace       \* per execution: what has been done for it (not program state)

lockVars == <<lock, holds, lapsed, leaseLost, ret>>
dbVars == <<jobs, execs, history>>
runVars == <<pc, todo, queue, worker, timers, upsert, pool, api, trace>>
vars == <<now, lock, holds, lapsed, leaseLost, ret,
          jobs, execs, history, pc, todo, queue, worker, timers, upsert, pool, api, trace>>

\* ------------------------------------------------------- coordination lock
\* The store holds at most one value under the key; ttl is its remaining life.
NoLock == [owner |-> NoOwner, ttl |-> 0]

LockStates == {NoLock} \cup [owner : Replicas, ttl : 1..LockTTL]

\* SET key workerID NX PX ttl, ignoring NX: the value is always written.
AcquireLockNoNX(store, workerID, ttl) ==
    [store |-> [owner |-> workerID, ttl |-> ttl], result |-> TRUE]

\* client.SetNX(ctx, lockKey, l.workerID, ttl): set if absent, result = was set.
AcquireLock(store, workerID, ttl) ==
    IF store.owner = NoOwner
    THEN [store |-> [owner |-> workerID, ttl |-> ttl], result |-> TRUE]
    ELSE [store |-> store, result |-> FALSE]

\* DEL without the owner comparison.
ReleaseLockNoCompare(store, workerID) ==
    [store |-> NoLock, err |-> FALSE]

\* The release script: if get(key) == workerID then del(key) else 0.
\* err is set only for a client error other than redis.Nil; the script
\* returning 0 is not one.
ReleaseLock(store, workerID) ==
    IF store.owner = workerID
    THEN [store |-> NoLock, err |-> FALSE]
    ELSE [store |-> store, err |-> FALSE]

\* PEXPIRE without the owner comparison.
RefreshLockNoCompare(store, workerID, ttl) ==
    IF store.owner # NoOwner
    THEN [store |-> [store EXCEPT !.ttl = ttl], err |-> FALSE]
    ELSE [store |-> store, err |-> FALSE]

\* The refresh script: if get(key) == workerID then pexpire(key, ttl) else 0.
RefreshLock(store, workerID, ttl) ==
    IF store.owner = workerID
    THEN [store |-> [store EXCEPT !.ttl = ttl], err |-> FALSE]
    ELSE [store |-> store, err |-> FALSE]

\* client.Get(key): redis.Nil -> false; otherwise value == workerID.
IsLockHeld(store, workerID) ==
    IF store.owner = NoOwner THEN FALSE ELSE store.owner = workerID

\* A key written without an expiry.
AgeLockNoExpiry(store) == store

\* One clock tick at the store: the key's TTL runs down and the key is
\* removed when it reaches zero.
AgeLock(store) ==
    IF store.owner = NoOwner THEN store
    ELSE IF store.ttl > 1 THEN [store EXCEPT !.ttl = store.ttl - 1]
    ELSE NoLock

\* The bookkeeping of a tick: a holder whose key is removed has lapsed.
Expiring(store) == store.owner # NoOwner /\ store.ttl = 1

LapseOnTick ==
    /\ lapsed' = IF Expiring(lock) /\ holds[lock.owner]
                 THEN lapsed \cup {lock.owner} ELSE lapsed
    /\ leaseLost' = (leaseLost \/ (Expiring(lock) /\ holds[lock.owner]))

\* ------------------------------------------- the lock API, called freely
CallAcquireLock(r) ==
    LET res == AcquireLock(lock, r, LockTTL) IN
    /\ lock' = res.store
    /\ holds' = [holds EXCEPT ![r] = IF res.result THEN TRUE ELSE @]
    /\ lapsed' = IF res.result THEN lapsed \ {r} ELSE lapsed
    /\ ret' = [ret EXCEPT ![r] = [op |-> "AcquireLock", val |-> res.result, err |-> FALSE]]
    /\ UNCHANGED <<now, leaseLost, dbVars, runVars>>

CallReleaseLock(r) ==
    LET res == ReleaseLock(lock, r) IN
    /\ lock' = res.store
    /\ holds' = [holds EXCEPT ![r] = FALSE]
    /\ lapsed' = lapsed \ {r}
    /\ ret' = [ret EXCEPT ![r] = [op |-> "ReleaseLock", val |-> TRUE, err |-> res.err]]
    /\ UNCHANGED <<now, leaseLost, dbVars, runVars>>

CallRefreshLock(r) ==
    LET res == RefreshLock(lock, r, LockTTL) IN
    /\ lock' = res.store
    /\ ret' = [ret EXCEPT ![r] = [op |-> "RefreshLock", val |-> TRUE, err |-> res.err]]
    /\ UNCHANGED <<now, holds, lapsed, leaseLost, dbVars, runVars>>

CallIsLockHeld(r) ==
    /\ ret' = [ret EXCEPT ![r] = [op |-> "IsLockHeld", val |-> IsLockHeld(lock, r), err |-> FALSE]]
    /\ UNCHANGED <<now, lock, holds, lapsed, leaseLost, dbVars, runVars>>

StoreTick ==
    /\ lock' = AgeLock(lock)
    /\ LapseOnTick
    /\ UNCHANGED <<now, holds, ret, dbVars, runVars>>

\* ------------------------------------------------------------ data model
JobTypes == {"cron", "interval", "one_time"}

Terminal == {"completed", "failed", "cancelled", "timeout"}

ExecStatuses == {"pending", "running", "retrying"} \cup Terminal

\* HTTP outcomes of one attempt: a status code, TransportError when there is
\* no response, DeadlineExceeded when the per-attempt context ran out.
TransportError == 0
DeadlineExceeded == 0 - 2
Outcomes == {200, 404, 429, 503, TransportError, DeadlineExceeded}

\* result.Duration of a successful call, in ms
Durations == {2}

NoHistory ==
    [present |-> FALSE, success_count |-> 0, failure_count |-> 0,
     total_duration |-> 0, avg_duration |-> 0, min_duration |-> 0, max_duration |-> 0]

Idle == [busy |-> FALSE]

\* ------------------------------------------------------ schedule calculator
\* A schedule string is modelled by what the parsers make of it: an integer k
\* is the decimal text of k (as an interval) or the expression that fires
\* every k seconds (as a cron expression); Malformed is a text that neither
\* parser accepts.
Malformed == 0 - 9

ScheduleStrings == {Malformed} \cup ((0 - 1)..MaxSchedule)

\* cronParser.Parse succeeds: a step has to be a positive number
cronParse(schedule) == schedule # Malformed /\ schedule >= 1

\* json.Unmarshal([]byte(schedule), &interval) succeeds: any integer literal
intervalParse(schedule) == schedule # Malformed

\* Scheduler.CalculateNextRun: cron -> first tick strictly after now (the
\* schedule is the period of the expression), interval -> now + interval,
\* one_time -> nil, nil.
CalculateNextRun(job, t) ==
    CASE job.type = "cron" ->
           IF cronParse(job.schedule)
           THEN [next |-> ((t \div job.schedule) + 1) * job.schedule, err |-> FALSE]
           ELSE [next |-> Null, err |-> TRUE]
      [] job.type = "interval" ->
           IF intervalParse(job.schedule)
           THEN [next |-> t + job.schedule, err |-> FALSE]
           ELSE [next |-> Null, err |-> TRUE]
      [] job.type = "one_time" ->
           [next |-> Null, err |-> FALSE]
      [] OTHER ->
           [next |-> Null, err |-> TRUE]

\* JobService.validateSchedule: TRUE when it returns an error.
validateSchedule(jobType, schedule) ==
    CASE jobType = "cron" -> ~cronParse(schedule)
      [] jobType = "interval" -> ~intervalParse(schedule) \/ schedule < 1
      [] jobType = "one_time" -> FALSE
      [] OTHER -> TRUE

\* ---------------------------------------------------------- JobRepository
\* The query without its condition on status.
IsDueAnyStatus(row, before) ==
    /\ row.next_run_at # Null
    /\ row.next_run_at <= before

\* WHERE status = active AND next_run_at <= before
IsDue(row, before) ==
    /\ row.status = "active"
    /\ row.next_run_at # Null
    /\ row.next_run_at <= before

\* ORDER BY priority ASC, next_run_at ASC
BeforeAscending(a, b) ==
    \/ jobs[a].priority < jobs[b].priority
    \/ jobs[a].priority = jobs[b].priority /\ jobs[a].next_run_at < jobs[b].next_run_at
    \/ jobs[a].priority = jobs[b].priority /\ jobs[a].next_run_at = jobs[b].next_run_at /\ a < b

\* ORDER BY priority DESC, next_run_at ASC (ties in id order)
Before(a, b) ==
    \/ jobs[a].priority > jobs[b].priority
    \/ jobs[a].priority = jobs[b].priority /\ jobs[a].next_run_at < jobs[b].next_run_at
    \/ jobs[a].priority = jobs[b].priority /\ jobs[a].next_run_at = jobs[b].next_run_at /\ a < b

\* The rows in that order: the row at position i has i - 1 rows before it.
Ordered(ids) ==
    [i \in 1..Cardinality(ids) |->
        CHOOSE a \in ids : Cardinality({b \in ids : Before(b, a)}) = i - 1]

Limit(seq, n) == IF Len(seq) <= n THEN seq ELSE SubSeq(seq, 1, n)

\* The in-memory copy of a job row (models.Job) that the sweep and a task
\* carry: the columns that processScheduledJobs and processJob read.
Snapshot(j) ==
    [id |-> j, type |-> jobs[j].type, schedule |-> jobs[j].schedule,
     next_run_at |-> jobs[j].next_run_at, max_retries |-> jobs[j].max_retries]

FindJobsDueForExecution(before, limit) ==
    LET ids == Limit(Ordered({j \in DOMAIN jobs : IsDue(jobs[j], before)}), limit)
    IN  [i \in 1..Len(ids) |-> Snapshot(ids[i])]

UpdateNextRunAt(tbl, id, nextRunAt) ==
    [tbl EXCEPT ![id].next_run_at = nextRunAt]

\* First(&job, "id = ? AND tenant_id = ?"): the row in a sequence, or <<>>
\* for record not found.  No condition on status.
FindByTenantAndID(tbl, tenantID, id) ==
    IF id \in DOMAIN tbl /\ tbl[id].tenant_id = tenantID THEN <<tbl[id]>> ELSE <<>>

\* JobRepository.Update is db.Save(job): every column of the row is written
\* from the struct in memory.
Save(tbl, id, job) ==
    [tbl EXCEPT ![id] = job]

\* JobRepository.Delete: Update("status", deleted) on the row with this id.
Delete(tbl, id) ==
    [tbl EXCEPT ![id].status = "deleted"]

\* The update with last_run_at only, the counter expressions left out.
UpdateLastRunAtNoCount(tbl, id, success, t) ==
    [tbl EXCEPT ![id].last_run_at = t]

\* run_count and fail_count are written as run_count + 1 and fail_count + 1,
\* expressions the database evaluates on the row as it is.
UpdateLastRunAt(tbl, id, success, t) ==
    IF success
    THEN [tbl EXCEPT ![id].last_run_at = t, ![id].run_count = @ + 1]
    ELSE [tbl EXCEPT ![id].last_run_at = t, ![id].fail_count = @ + 1]

\* ---------------------------------------------------- ExecutionRepository
ExecIds == 1..Len(execs)

NewExecution(jobId, t) ==
    [job_id |-> jobId, status |-> "pending", scheduled_at |-> t, created_at |-> t,
     started_at |-> Null, completed_at |-> Null, duration |-> Null,
     attempt |-> 1, status_code |-> Null, error |-> FALSE]

\* UPDATE ... WHERE id = ? AND status = 'pending'.  gorm reports an update
\* that matches no row as success: rows is RowsAffected, err stays nil.
MarkAsRunning(tbl, id, t) ==
    IF tbl[id].status = "pending"
    THEN [tbl |-> [tbl EXCEPT ![id].status = "running", ![id].started_at = t],
          rows |-> 1, err |-> FALSE]
    ELSE [tbl |-> tbl, rows |-> 0, err |-> FALSE]

ElapsedSince(row, t) == IF row.started_at # Null THEN t - row.started_at ELSE 0

\* First(id), then UPDATE ... WHERE id = ?: no condition on the status.
MarkAsCompleted(tbl, id, statusCode, t) ==
    [tbl EXCEPT ![id].status = "completed", ![id].completed_at = t,
                ![id].duration = ElapsedSince(tbl[id], t),
                ![id].status_code = statusCode]

\* statusCode is &result.StatusCode: never nil, Execute always returns a result.
MarkAsFailed(tbl, id, statusCode, t) ==
    [tbl EXCEPT ![id].status = "failed", ![id].completed_at = t,
                ![id].duration = ElapsedSince(tbl[id], t),
                ![id].error = TRUE, ![id].status_code = statusCode]

\* The update without "attempt": gorm.Expr("attempt + 1").
MarkAsRetryingNoIncrement(tbl, id) ==
    [tbl EXCEPT ![id].status = "retrying", ![id].error = TRUE]

MarkAsRetrying(tbl, id) ==
    [tbl EXCEPT ![id].status = "retrying", ![id].error = TRUE,
                ![id].attempt = @ + 1]

\* UPDATE ... WHERE id = ? without the status condition.
CancelExecutionAnyStatus(tbl, id, t) ==
    [tbl EXCEPT ![id].status = "cancelled", ![id].completed_at = t]

\* UPDATE ... WHERE id = ? AND status IN ('pending', 'running').
CancelExecution(tbl, id, t) ==
    IF tbl[id].status \in {"pending", "running"}
    THEN [tbl EXCEPT ![id].status = "cancelled", ![id].completed_at = t]
    ELSE tbl

\* CleanupOld's DELETE without the condition on status.
CleanupOldAnyStatus(tbl, before) ==
    {id \in DOMAIN tbl : tbl[id].created_at < before}

\* ExecutionRepository.CleanupOld: the ids of the rows that
\* DELETE ... WHERE created_at < before AND status IN (completed, failed,
\* cancelled) removes.
CleanupOld(tbl, before) ==
    {id \in DOMAIN tbl :
        /\ tbl[id].created_at < before
        /\ tbl[id].status \in {"completed", "failed", "cancelled"}}

\* ------------------------------------------------------ HistoryRepository
Max(a, b) == IF a > b THEN a ELSE b

IncrementSuccess(tbl, jobId, duration) ==
    LET h == tbl[jobId] IN
    IF ~h.present
    THEN [tbl EXCEPT ![jobId] =
            [present |-> TRUE, success_count |-> 1, failure_count |-> 0,
             total_duration |-> duration, avg_duration |-> 0,
             min_duration |-> duration, max_duration |-> duration]]
    ELSE LET newCount == h.success_count + 1
             totalDuration == h.total_duration + duration
         IN  [tbl EXCEPT ![jobId] =
                [h EXCEPT !.success_count = newCount,
                          !.total_duration = totalDuration,
                          !.avg_duration = totalDuration \div (newCount + h.failure_count),
                          !.min_duration = IF duration < @ \/ @ = 0 THEN duration ELSE @,
                          !.max_duration = Max(@, duration)]]

IncrementFailure(tbl, jobId) ==
    LET h == tbl[jobId] IN
    IF ~h.present
    THEN [tbl EXCEPT ![jobId] = [NoHistory EXCEPT !.present = TRUE, !.failure_count = 1]]
    ELSE [tbl EXCEPT ![jobId].failure_count = @ + 1]

\* IncrementSuccess and IncrementFailure as the statements they issue, for
\* callers that run them concurrently on one (job_id, date).  The table is the
\* set of its rows: gorm's job_history has no unique index on (job_id, date).
Callers == 1..NumCallers
RowIds == 1..MaxCalls

NoRow ==
    [id |-> 0, success_count |-> 0, failure_count |-> 0, total_duration |-> 0,
     avg_duration |-> 0, min_duration |-> 0, max_duration |-> 0]

NoCall == [pc |-> "idle", op |-> "none", duration |-> 0, seen |-> NoRow]

NoUpserts ==
    [rows |-> {}, at |-> [c \in Callers |-> NoCall], started |-> 0,
     returned |-> [success |-> 0, failure |-> 0, duration |-> 0]]

\* Where(job_id, date).First(&history): the row with the least primary key,
\* NoRow for gorm.ErrRecordNotFound.
HistoryFirst(rows) ==
    IF rows = {} THEN NoRow
    ELSE CHOOSE row \in rows : \A other \in rows : row.id <= other.id

\* Create(&history) of either function; id is the new uuid.
HistoryCreate(rows, id, op, duration) ==
    rows \cup {IF op = "success"
               THEN [NoRow EXCEPT !.id = id, !.success_count = 1,
                                  !.total_duration = duration,
                                  !.min_duration = duration, !.max_duration = duration]
               ELSE [NoRow EXCEPT !.id = id, !.failure_count = 1]}

\* Updates(...) WHERE id = history.ID.  IncrementSuccess writes the values it
\* computed from the row it read; IncrementFailure writes failure_count + 1
\* as an expression evaluated by the database.
HistoryUpdate(rows, seen, op, duration) ==
    { IF row.id # seen.id THEN row
      ELSE IF op = "success"
      THEN LET newCount == seen.success_count + 1
               totalDuration == seen.total_duration + duration
           IN  [row EXCEPT !.success_count = newCount,
                           !.total_duration = totalDuration,
                           !.avg_duration = totalDuration \div (newCount + seen.failure_count),
                           !.min_duration = IF duration < seen.min_duration \/ seen.min_duration = 0
                                            THEN duration ELSE seen.min_duration,
                           !.max_duration = Max(seen.max_duration, duration)]
      ELSE [row EXCEPT !.failure_count = @ + 1] : row \in rows }

\* The first statement of a call by caller c: the read.
UpsertRead(c, op, duration) ==
    /\ upsert.at[c].pc = "idle"
    /\ upsert.started < MaxCalls
    /\ upsert' = [upsert EXCEPT
                    !.at[c] = [pc |-> "read", op |-> op, duration |-> duration,
                               seen |-> HistoryFirst(upsert.rows)],
                    !.started = @ + 1]
    /\ UNCHANGED <<now, lockVars, dbVars, pc, todo, queue, worker, timers, trace, pool, api>>

\* The second statement of the call, and its return.
UpsertWrite(c) ==
    /\ upsert.at[c].pc = "read"
    /\ LET call == upsert.at[c]
           count == [upsert.returned EXCEPT
                        ![call.op] = @ + 1,
                        !.duration = IF call.op = "success" THEN @ + call.duration ELSE @]
       IN  IF call.seen = NoRow
           THEN \E id \in RowIds \ {row.id : row \in upsert.rows} :
                   upsert' = [upsert EXCEPT
                                !.rows = HistoryCreate(@, id, call.op, call.duration),
                                !.at[c] = NoCall, !.returned = count]
           ELSE upsert' = [upsert EXCEPT
                             !.rows = HistoryUpdate(@, call.seen, call.op, call.duration),
                             !.at[c] = NoCall, !.returned = count]
    /\ UNCHANGED <<now, lockVars, dbVars, pc, todo, queue, worker, timers, trace, pool, api>>

\* ------------------------------------------------------------ worker pool
\* NewWorkerPool without the floor on the number of workers.
PoolSizeNoFloor(workers) == workers

\* NewWorkerPool: if workers < 1 { workers = 1 }
PoolSize(workers) == IF workers < 1 THEN 1 ELSE workers

\* The capacity of the task queue of the scheduler's own pool.
QueueCapacity == QueueFactor * PoolSize(WorkerCount)

\* select { case taskQueue <- task: true; default: false } on a channel with
\* the given buffer.
Send(q, task, capacity) ==
    IF Len(q) < capacity
    THEN [queue |-> Append(q, task), accepted |-> TRUE]
    ELSE [queue |-> q, accepted |-> FALSE]

\* WorkerPool.Submit on a running pool: non-blocking send on the buffered channel.
Submit(q, task) == Send(q, task, QueueCapacity)

\* WorkerPool on its own, with any WorkerFunc: the tasks are numbered in the
\* order they are submitted, one more of them than the queue can hold.
MaxTasks == QueueCapacity + 1
Tasks == 1..MaxTasks

\* NewWorkerPool(workers, fn): not running, no worker goroutine yet, an open
\* empty queue with a buffer of 10 x workers.
NewPool(workers) ==
    [configured |-> workers, workers |-> PoolSize(workers),
     capacity |-> QueueFactor * PoolSize(workers),
     running |-> FALSE, started |-> FALSE, cancelled |-> FALSE, closed |-> FALSE,
     taskQueue |-> <<>>, at |-> [w \in 1..PoolSize(workers) |-> "none"], next |-> 1,
     last |-> [task |-> 0, accepted |-> FALSE],
     accepted |-> {}, handed |-> [t \in Tasks |-> 0],
     stop |-> "none", crashed |-> FALSE]

\* The pool Scheduler.Start creates: NewWorkerPool(config.Scheduler.WorkerCount, ...)
NewWorkerPool == NewPool(WorkerCount)

\* WorkerPool.Submit without the check of p.running.
SubmitToUnchecked(p, task) == Send(p.taskQueue, task, p.capacity)

\* WorkerPool.Submit: false when the pool is not running, else the
\* non-blocking send.
SubmitTo(p, task) ==
    IF ~p.running
    THEN [queue |-> p.taskQueue, accepted |-> FALSE]
    ELSE Send(p.taskQueue, task, p.capacity)

\* WorkerPool.Start, called once on a new pool as Scheduler.Start does.
PoolStart ==
    /\ ~pool.running
    /\ ~pool.started
    /\ pool' = [pool EXCEPT !.running = TRUE, !.started = TRUE,
                            !.at = [w \in DOMAIN pool.at |-> "idle"]]
    /\ UNCHANGED <<now, lockVars, dbVars, pc, todo, queue, worker, timers, upsert, trace, api>>

\* A call of Submit with the next task, from call to return.
PoolSubmit(t) ==
    /\ ~pool.crashed
    /\ t = pool.next
    /\ LET res == SubmitTo(pool, t) IN
       pool' = [pool EXCEPT !.taskQueue = res.queue,
                            !.last = [task |-> t, accepted |-> res.accepted],
                            !.accepted = IF res.accepted THEN @ \cup {t} ELSE @,
                            !.next = @ + 1]
    /\ UNCHANGED <<now, lockVars, dbVars, pc, todo, queue, worker, timers, upsert, trace, api>>

\* worker, the case task, ok := <-p.taskQueue with a task: p.workerFunc(task).
WorkerReceive(w) ==
    /\ ~pool.crashed
    /\ w \in DOMAIN pool.at
    /\ pool.at[w] = "idle"
    /\ pool.taskQueue # <<>>
    /\ pool' = [pool EXCEPT !.taskQueue = Tail(@), !.at[w] = "busy",
                            !.handed[Head(pool.taskQueue)] = @ + 1]
    /\ UNCHANGED <<now, lockVars, dbVars, pc, todo, queue, worker, timers, upsert, trace, api>>

\* worker, the cases that return: <-p.ctx.Done(), or the queue closed and
\* empty.  select takes any case that is ready.
WorkerExit(w) ==
    /\ ~pool.crashed
    /\ w \in DOMAIN pool.at
    /\ pool.at[w] = "idle"
    /\ pool.cancelled \/ (pool.closed /\ pool.taskQueue = <<>>)
    /\ pool' = [pool EXCEPT !.at[w] = "exited"]
    /\ UNCHANGED <<now, lockVars, dbVars, pc, todo, queue, worker, timers, upsert, trace, api>>

\* p.workerFunc(task) returns.
WorkerReturn(w) ==
    /\ ~pool.crashed
    /\ w \in DOMAIN pool.at
    /\ pool.at[w] = "busy"
    /\ pool' = [pool EXCEPT !.at[w] = "idle"]
    /\ UNCHANGED <<now, lockVars, dbVars, pc, todo, queue, worker, timers, upsert, trace, api>>

\* p.workerFunc(task) panics.  Neither worker nor processJob has a deferred
\* recover, so the panic leaves the goroutine and ends the process: every
\* goroutine of it is gone.
WorkerPanic(w) ==
    /\ ~pool.crashed
    /\ w \in DOMAIN pool.at
    /\ pool.at[w] = "busy"
    /\ pool' = [pool EXCEPT !.crashed = TRUE, !.at = [v \in DOMAIN pool.at |-> "dead"]]
    /\ UNCHANGED <<now, lockVars, dbVars, pc, todo, queue, worker, timers, upsert, trace, api>>

\* WorkerPool.Stop up to wg.Wait(): running = false, cancel(), close(taskQueue).
PoolStop ==
    /\ ~pool.crashed
    /\ pool.running
    /\ pool' = [pool EXCEPT !.running = FALSE, !.cancelled = TRUE, !.closed = TRUE,
                            !.stop = "waiting"]
    /\ UNCHANGED <<now, lockVars, dbVars, pc, todo, queue, worker, timers, upsert, trace, api>>

\* wg.Wait() returns once every worker has returned, and Stop with it.
PoolStopReturn ==
    /\ ~pool.crashed
    /\ pool.stop = "waiting"
    /\ \A w \in DOMAIN pool.at : pool.at[w] = "exited"
    /\ pool' = [pool EXCEPT !.stop = "returned"]
    /\ UNCHANGED <<now, lockVars, dbVars, pc, todo, queue, worker, timers, upsert, trace, api>>

\* Submit and Stop statement by statement, for callers on separate
\* goroutines (the dispatch loop, TriggerJob, a retry timer against
\* Scheduler.Stop).  The calls of Submit in progress are held in api.
NoSubmits ==
    [op |-> "Submit", at |-> [c \in Callers |-> "idle"],
     task |-> [c \in Callers |-> 0]]

\* Submit up to RUnlock: p.running is read under the read lock, and the lock
\* is released before the send.
SubmitCheck(c) ==
    /\ ~pool.crashed
    /\ api.op = "Submit"
    /\ api.at[c] = "idle"
    /\ pool.next \in Tasks
    /\ api' = [api EXCEPT !.at[c] = IF pool.running THEN "checked" ELSE "false",
                          !.task[c] = pool.next]
    /\ pool' = [pool EXCEPT !.next = @ + 1]
    /\ UNCHANGED <<now, lockVars, dbVars, pc, todo, queue, worker, timers, upsert, trace>>

\* Submit, the select: a send on a closed channel panics (the send case of a
\* select is no exception), and nothing recovers it; on an open channel the
\* task is enqueued, or the default case returns false when the buffer is full.
SubmitSend(c) ==
    /\ ~pool.crashed
    /\ api.op = "Submit"
    /\ api.at[c] = "checked"
    /\ IF pool.closed
       THEN /\ api' = [api EXCEPT !.at[c] = "panicked"]
            /\ pool' = [pool EXCEPT !.crashed = TRUE,
                                    !.at = [v \in DOMAIN pool.at |-> "dead"]]
       ELSE LET res == Send(pool.taskQueue, api.task[c], pool.capacity) IN
            /\ api' = [api EXCEPT !.at[c] = IF res.accepted THEN "true" ELSE "false"]
            /\ pool' = [pool EXCEPT !.taskQueue = res.queue,
                                    !.last = [task |-> api.task[c], accepted |-> res.accepted],
                                    !.accepted = IF res.accepted THEN @ \cup {api.task[c]} ELSE @]
    /\ UNCHANGED <<now, lockVars, dbVars, pc, todo, queue, worker, timers, upsert, trace>>

\* Stop up to mu.Unlock(): p.running = false.
StopFlag ==
    /\ ~pool.crashed
    /\ pool.running
    /\ pool' = [pool EXCEPT !.running = FALSE, !.stop = "flagged"]
    /\ UNCHANGED <<now, lockVars, dbVars, pc, todo, queue, worker, timers, upsert, trace, api>>

\* Stop after the unlock: p.cancel(), close(p.taskQueue), then wg.Wait().
StopClose ==
    /\ ~pool.crashed
    /\ pool.stop = "flagged"
    /\ pool' = [pool EXCEPT !.cancelled = TRUE, !.closed = TRUE, !.stop = "waiting"]
    /\ UNCHANGED <<now, lockVars, dbVars, pc, todo, queue, worker, timers, upsert, trace, api>>

\* ---------------------------------------------------------------- executor
\* Executor.Execute: the result and error for each outcome of client.Do.
Execute(outcome) ==
    CASE outcome = DeadlineExceeded ->
           [status_code |-> 0, err |-> TRUE, ctxDone |-> TRUE]
      [] outcome = TransportError ->
           [status_code |-> 0, err |-> TRUE, ctxDone |-> FALSE]
      [] outcome >= 400 ->
           [status_code |-> outcome, err |-> TRUE, ctxDone |-> FALSE]
      [] OTHER ->
           [status_code |-> outcome, err |-> FALSE, ctxDone |-> FALSE]

\* Executor.isRetryable
isRetryable(result) ==
    \/ result.status_code >= 500
    \/ result.status_code = 429

\* Executor.ExecuteWithRetry, one iteration of its loop per step.  The call in
\* progress is held in api: maxRetries, the loop variable attempt, the
\* outcomes of the requests sent so far, and what the call returned.
RetryCall(maxRetries) ==
    [op |-> "ExecuteWithRetry", maxRetries |-> maxRetries, attempt |-> 0,
     calls |-> <<>>, ret |-> "none"]

\* result, lastErr = Execute; return on nil error; return when the error is
\* not retryable; otherwise attempt++ and, past maxRetries, fall out of the
\* loop and return the last result and error.
RetryLoop(outcome) ==
    /\ api.op = "ExecuteWithRetry"
    /\ api.ret = "none"
    /\ api.attempt <= api.maxRetries
    /\ LET result == Execute(outcome)
           calls == Append(api.calls, outcome) IN
       api' = IF ~result.err
                THEN [api EXCEPT !.calls = calls, !.ret = "ok"]
              ELSE IF ~isRetryable(result)
                THEN [api EXCEPT !.calls = calls, !.ret = "error"]
              ELSE [api EXCEPT !.calls = calls, !.attempt = @ + 1,
                               !.ret = IF api.attempt + 1 <= api.maxRetries
                                       THEN "none" ELSE "error"]
    /\ UNCHANGED <<now, lockVars, dbVars, pc, todo, queue, worker, timers, upsert, pool, trace>>

\* The wait before a retry ends with ctx.Done(): return nil, ctx.Err().
RetryWaitCancelled ==
    /\ api.op = "ExecuteWithRetry"
    /\ api.ret = "none"
    /\ api.attempt > 0
    /\ api' = [api EXCEPT !.ret = "cancelled"]
    /\ UNCHANGED <<now, lockVars, dbVars, pc, todo, queue, worker, timers, upsert, pool, trace>>

\* ------------------------------------------------------------ dispatch loop
NoTrace == [fire |-> Null, origin |-> "none", sent |-> 0]

\* processScheduledJobs, AcquireLock: not acquired -> return.
SweepAcquire(r) ==
    /\ pc[r] = "idle"
    /\ LET res == AcquireLock(lock, r, LockTTL) IN
       /\ lock' = res.store
       /\ pc' = [pc EXCEPT ![r] = IF res.result THEN "fetch" ELSE "idle"]
       /\ holds' = [holds EXCEPT ![r] = res.result]
       /\ lapsed' = IF res.result THEN lapsed \ {r} ELSE lapsed
    /\ UNCHANGED <<now, leaseLost, ret, dbVars, todo, queue, worker, timers, trace, upsert, pool, api>>

\* processScheduledJobs, FindJobsDueForExecution(time.Now(), 100).
SweepFetch(r) ==
    /\ pc[r] = "fetch"
    /\ todo' = [todo EXCEPT ![r] = FindJobsDueForExecution(now, DueLimit)]
    /\ pc' = [pc EXCEPT ![r] = "loop"]
    /\ UNCHANGED <<now, lockVars, dbVars, queue, worker, timers, trace, upsert, pool, api>>

\* One iteration of the loop over the fetched jobs: create the execution,
\* advance next_run_at when CalculateNextRun gives a time, submit the task.
SweepDispatch(r) ==
    /\ pc[r] = "loop"
    /\ todo[r] # <<>>
    /\ LET job == Head(todo[r])
           id == Len(execs) + 1
           execution == NewExecution(job.id, now)
           nextRunAt == CalculateNextRun(job, now)
           sub == Submit(queue[r], [job |-> job, exec |-> id, attempt |-> execution.attempt])
       IN  /\ execs' = Append(execs, execution)
           /\ trace' = Append(trace, [NoTrace EXCEPT !.fire = job.next_run_at,
                                                     !.origin = "sweep"])
           /\ jobs' = IF ~nextRunAt.err /\ nextRunAt.next # Null
                      THEN UpdateNextRunAt(jobs, job.id, nextRunAt.next)
                      ELSE jobs
           /\ queue' = [queue EXCEPT ![r] = sub.queue]
    /\ todo' = [todo EXCEPT ![r] = Tail(@)]
    /\ UNCHANGED <<now, lockVars, history, pc, worker, timers, upsert, pool, api>>

\* End of the sweep: the deferred ReleaseLock.
SweepRelease(r) ==
    /\ pc[r] = "loop"
    /\ todo[r] = <<>>
    /\ lock' = ReleaseLock(lock, r).store
    /\ holds' = [holds EXCEPT ![r] = FALSE]
    /\ lapsed' = lapsed \ {r}
    /\ pc' = [pc EXCEPT ![r] = "idle"]
    /\ UNCHANGED <<now, leaseLost, ret, dbVars, todo, queue, worker, timers, trace, upsert, pool, api>>

\* processScheduledJobs when FindJobsDueForExecution returns an error: the
\* function returns and the deferred ReleaseLock runs.
SweepFetchFails(r) ==
    /\ pc[r] = "fetch"
    /\ lock' = ReleaseLock(lock, r).store
    /\ holds' = [holds EXCEPT ![r] = FALSE]
    /\ lapsed' = lapsed \ {r}
    /\ pc' = [pc EXCEPT ![r] = "idle"]
    /\ UNCHANGED <<now, leaseLost, ret, dbVars, todo, queue, worker, timers, trace, upsert, pool, api>>

\* A replica that is not running: its process was killed, or Stop was called.
Down == {"dead", "stopped"}

Running(r) == pc[r] \notin Down

\* The process of replica r is killed: it takes no further step and what it
\* wrote to the stores stays.
Kill(r) ==
    /\ Running(r)
    /\ \E q \in Replicas \ {r} : Running(q)
    /\ pc' = [pc EXCEPT ![r] = "dead"]
    /\ UNCHANGED <<now, lockVars, dbVars, todo, queue, worker, timers, trace, upsert, pool, api>>

\* Scheduler.Stop on replica r: s.cancel() cancels s.ctx and the loops
\* return.  A sweep in progress finishes with that context: the remaining
\* executionRepo.Create calls fail, so no further row is created, and the
\* deferred ReleaseLock(s.ctx, lockKey) fails before it reaches the store.
Stop(r) ==
    /\ Running(r)
    /\ \E q \in Replicas \ {r} : Running(q)
    /\ pc' = [pc EXCEPT ![r] = "stopped"]
    /\ todo' = [todo EXCEPT ![r] = <<>>]
    /\ UNCHANGED <<now, lockVars, dbVars, queue, worker, timers, trace, upsert, pool, api>>

\* heartbeatLoop: every running replica refreshes the leader key.
Heartbeat(r) ==
    /\ Running(r)
    /\ lock' = RefreshLock(lock, r, LockTTL).store
    /\ UNCHANGED <<now, holds, lapsed, leaseLost, ret, dbVars, runVars>>

\* One second passes.
Tick ==
    /\ now < MaxTime
    /\ now' = now + 1
    /\ lock' = AgeLock(lock)
    /\ LapseOnTick
    /\ UNCHANGED <<holds, ret, dbVars, runVars>>

\* Scheduler.cleanup with CleanupDays = days: the cutoff is now - days.  A
\* deleted row keeps its place in the sequence with status deleted, so that
\* the ids of the other rows stay.
cleanup(days) ==
    /\ LET gone == CleanupOld(execs, now - days) IN
       execs' = [id \in DOMAIN execs |->
                    IF id \in gone THEN [execs[id] EXCEPT !.status = "deleted"]
                    ELSE execs[id]]
    /\ UNCHANGED <<now, lockVars, jobs, history, runVars>>

\* ------------------------------------------------ execution state machine
\* processJob up to the HTTP request: the worker takes the task, calls
\* MarkAsRunning, returns only when that call reports an error, and sends.
WorkerStart(r, w) ==
    /\ ~worker[r][w].busy
    /\ queue[r] # <<>>
    /\ LET task == Head(queue[r])
           res == MarkAsRunning(execs, task.exec, now)
       IN  /\ execs' = res.tbl
           /\ IF res.err
              THEN UNCHANGED <<worker, trace>>
              ELSE /\ worker' = [worker EXCEPT ![r][w] =
                         [busy |-> TRUE, task |-> task, marked |-> res.rows = 1]]
                   /\ trace' = [trace EXCEPT ![task.exec].sent = @ + 1]
    /\ queue' = [queue EXCEPT ![r] = Tail(@)]
    /\ UNCHANGED <<now, lockVars, jobs, history, pc, todo, timers, upsert, pool, api>>

\* handleExecutionFailure with the failure accounting done on the retry
\* branch as well.
handleExecutionFailureCountsRetry(r, task, result) ==
    IF task.attempt < task.job.max_retries
    THEN /\ execs' = IF result.ctxDone THEN execs ELSE MarkAsRetrying(execs, task.exec)
         /\ timers' = timers \cup {[rep |-> r, task |-> task, due |-> now + RetryDelaySeconds]}
         /\ jobs' = UpdateLastRunAt(jobs, task.job.id, FALSE, now)
         /\ history' = IncrementFailure(history, task.job.id)
    ELSE /\ execs' = IF result.ctxDone THEN execs
                     ELSE MarkAsFailed(execs, task.exec, result.status_code, now)
         /\ jobs' = IF result.ctxDone THEN jobs
                    ELSE UpdateLastRunAt(jobs, task.job.id, FALSE, now)
         /\ history' = IF result.ctxDone THEN history
                       ELSE IncrementFailure(history, task.job.id)
         /\ UNCHANGED timers

\* handleExecutionFailure.  Every repository call uses the per-attempt
\* context: when that context is done the calls fail and write nothing; the
\* retry timer is set regardless.
handleExecutionFailure(r, task, result) ==
    IF task.attempt < task.job.max_retries
    THEN /\ execs' = IF result.ctxDone THEN execs ELSE MarkAsRetrying(execs, task.exec)
         /\ timers' = timers \cup {[rep |-> r, task |-> task, due |-> now + RetryDelaySeconds]}
         /\ UNCHANGED <<jobs, history>>
    ELSE /\ execs' = IF result.ctxDone THEN execs
                     ELSE MarkAsFailed(execs, task.exec, result.status_code, now)
         /\ jobs' = IF result.ctxDone THEN jobs
                    ELSE UpdateLastRunAt(jobs, task.job.id, FALSE, now)
         /\ history' = IF result.ctxDone THEN history
                       ELSE IncrementFailure(history, task.job.id)
         /\ UNCHANGED timers

\* processJob from the return of Execute on.
WorkerFinish(r, w, outcome, duration) ==
    /\ worker[r][w].busy
    /\ LET task == worker[r][w].task
           result == Execute(outcome)
       IN  IF result.err
           THEN handleExecutionFailure(r, task, result)
           ELSE /\ execs' = MarkAsCompleted(execs, task.exec, result.status_code, now)
                /\ jobs' = UpdateLastRunAt(jobs, task.job.id, TRUE, now)
                /\ history' = IncrementSuccess(history, task.job.id, duration)
                /\ UNCHANGED timers
    /\ worker' = [worker EXCEPT ![r][w] = Idle]
    /\ UNCHANGED <<now, lockVars, pc, todo, queue, trace, upsert, pool, api>>

\* The time.AfterFunc callback: task.Execution.Attempt++, Submit(*task).
Resubmit(t) ==
    /\ LET sub == Submit(queue[t.rep], [t.task EXCEPT !.attempt = @ + 1])
       IN  queue' = [queue EXCEPT ![t.rep] = sub.queue]
    /\ timers' = timers \ {t}
    /\ UNCHANGED <<now, lockVars, dbVars, pc, todo, worker, trace, upsert, pool, api>>

\* The timer fires once its delay has passed.
RetryFire(t) ==
    /\ t \in timers
    /\ now >= t.due
    /\ Resubmit(t)

\* A timer set for a time past the last instant of the clock fires after it.
RetryFireLate(t) ==
    /\ t \in timers
    /\ now = MaxTime
    /\ t.due > MaxTime
    /\ Resubmit(t)

\* The timers of a running process: each fires in the end.
TimerStep == \E t \in timers : RetryFire(t) \/ RetryFireLate(t)

\* JobService.Trigger -> Scheduler.TriggerJob on replica r: allowed for an
\* active or paused job; creates the execution and submits the task.
TriggerJob(r, j) ==
    /\ jobs[j].status \in {"active", "paused"}
    /\ LET job == Snapshot(j)
           id == Len(execs) + 1
           execution == NewExecution(j, now)
           sub == Submit(queue[r], [job |-> job, exec |-> id, attempt |-> execution.attempt])
       IN  /\ execs' = Append(execs, execution)
           /\ trace' = Append(trace, [NoTrace EXCEPT !.origin = "trigger"])
           /\ queue' = [queue EXCEPT ![r] = sub.queue]
    /\ UNCHANGED <<now, lockVars, jobs, history, pc, todo, worker, timers, upsert, pool, api>>

\* ExecutionService.Cancel -> ExecutionRepository.CancelExecution
Cancel(id) ==
    /\ id \in ExecIds
    /\ execs' = CancelExecution(execs, id, now)
    /\ UNCHANGED <<now, lockVars, jobs, history, pc, todo, queue, worker, timers, trace, upsert, pool, api>>

\* ------------------------------------------------------------- job service
\* One request of the HTTP API is served at a time.  api.op names the service
\* call between its read and its write, api.job holds the models.Job it has
\* in memory, api.resp is the outcome of the last request that returned.
NoRequest ==
    [op |-> "none", tenant |-> 0, id |-> 0, job |-> <<>>, status |-> "none",
     resp |-> "none", calc |-> "none"]

Respond(tenantID, id, resp) ==
    [NoRequest EXCEPT !.tenant = tenantID, !.id = id, !.resp = resp]

\* JobService.UpdateStatus up to the call of jobRepo.Update: the row is read
\* and the status is set on the copy.
UpdateStatus(tenantID, id, status) ==
    /\ api.op = "none"
    /\ LET found == FindByTenantAndID(jobs, tenantID, id) IN
       api' = IF found = <<>>
              THEN Respond(tenantID, id, "not_found")
              ELSE [NoRequest EXCEPT !.op = "UpdateStatus", !.tenant = tenantID, !.id = id,
                                     !.job = <<[found[1] EXCEPT !.status = status]>>,
                                     !.status = status]
    /\ UNCHANGED <<now, lockVars, dbVars, pc, todo, queue, worker, timers, upsert, pool, trace>>

\* JobHandler.Pause and JobHandler.Resume
Pause(tenantID, id) == UpdateStatus(tenantID, id, "paused")

Resume(tenantID, id) == UpdateStatus(tenantID, id, "active")

\* A models.UpdateJobRequest: schedule is <<>> when the field is absent or
\* empty, priority is 0 when it is absent.
UpdateJobRequests ==
    [schedule : {<<>>, <<0>>, <<MaxSchedule>>},
     priority : {0, DefaultPriority + 1}, timeout : {0}]

\* JobService.Update up to the call of jobRepo.Update.
Update(tenantID, id, req) ==
    /\ api.op = "none"
    /\ LET found == FindByTenantAndID(jobs, tenantID, id) IN
       IF found = <<>>
       THEN api' = Respond(tenantID, id, "not_found")
       ELSE LET job == found[1]
                changed == req.schedule # <<>>
                withSchedule == IF changed THEN [job EXCEPT !.schedule = req.schedule[1]]
                                ELSE job
                withPriority == IF req.priority > 0
                                THEN [withSchedule EXCEPT !.priority = req.priority]
                                ELSE withSchedule
                withTimeout == IF req.timeout > 0
                               THEN [withPriority EXCEPT !.timeout = req.timeout]
                               ELSE withPriority
                nextRunAt == CalculateNextRun(withTimeout, now)
                updated == IF changed /\ ~nextRunAt.err /\ nextRunAt.next # Null
                           THEN [withTimeout EXCEPT !.next_run_at = nextRunAt.next]
                           ELSE withTimeout
            IN  api' = IF changed /\ validateSchedule(job.type, req.schedule[1])
                       THEN Respond(tenantID, id, "rejected")
                       ELSE [NoRequest EXCEPT !.op = "Update", !.tenant = tenantID,
                                              !.id = id, !.job = <<updated>>]
    /\ UNCHANGED <<now, lockVars, dbVars, pc, todo, queue, worker, timers, upsert, pool, trace>>

\* The end of UpdateStatus and of Update: jobRepo.Update(ctx, job).
ServiceSave ==
    /\ api.op \in {"UpdateStatus", "Update"}
    /\ jobs' = Save(jobs, api.id, api.job[1])
    /\ api' = Respond(api.tenant, api.id, "ok")
    /\ UNCHANGED <<now, lockVars, execs, history, pc, todo, queue, worker, timers, upsert, pool, trace>>

\* JobService.Delete
DeleteJob(tenantID, id) ==
    /\ api.op = "none"
    /\ LET found == FindByTenantAndID(jobs, tenantID, id) IN
       IF found = <<>>
       THEN /\ api' = Respond(tenantID, id, "not_found")
            /\ UNCHANGED jobs
       ELSE /\ api' = Respond(tenantID, id, "ok")
            /\ jobs' = Delete(jobs, id)
    /\ UNCHANGED <<now, lockVars, execs, history, pc, todo, queue, worker, timers, upsert, pool, trace>>

\* JobService.Trigger on replica r: the job is read with the caller's tenant,
\* then Scheduler.TriggerJob runs.
Trigger(r, tenantID, id) ==
    /\ api.op = "none"
    /\ FindByTenantAndID(jobs, tenantID, id) # <<>>
    /\ TriggerJob(r, id)

\* ExecutionHandler.Cancel for a request of tenant tenantID: the handler
\* passes the id alone to ExecutionService.Cancel.
ExecutionCancel(tenantID, id) ==
    /\ id \in ExecIds
    /\ api.op = "none"
    /\ execs' = CancelExecution(execs, id, now)
    /\ api' = Respond(tenantID, id, "ok")
    /\ UNCHANGED <<now, lockVars, jobs, history, pc, todo, queue, worker, timers, upsert, pool, trace>>

\* The two schedule functions applied to the type and schedule string of one
\* request: api.resp is what validateSchedule said, api.calc what
\* CalculateNextRun said.
Validate ==
    /\ api.op = "schedule"
    /\ api.resp = "none"
    /\ api' = [api EXCEPT !.resp = IF validateSchedule(api.job[1].type, api.job[1].schedule)
                                   THEN "rejected" ELSE "ok"]
    /\ UNCHANGED <<now, lockVars, dbVars, pc, todo, queue, worker, timers, upsert, pool, trace>>

Calculate ==
    /\ api.op = "schedule"
    /\ api.calc = "none"
    /\ api' = [api EXCEPT !.calc = IF CalculateNextRun(api.job[1], now).err
                                   THEN "error" ELSE "ok"]
    /\ UNCHANGED <<now, lockVars, dbVars, pc, todo, queue, worker, timers, upsert, pool, trace>>

\* ------------------------------------------------------------ specification
\* JobService.Create, the max_retries it stores for the one requested: only
\* a request of 0 gets the default, any other number is stored as given.
CreateMaxRetries(requested) ==
    IF requested = 0 THEN DefaultMaxRetries ELSE requested

RequestedMaxRetries == (0 - 1)..MaxRetriesBound

\* A job row as JobService.Create stores it at time 0: active, counters 0,
\* next_run_at from CalculateNextRun.  The next_run_at of a one_time job is
\* not set by Create; it is set from outside or stays NULL.
InitialJobs ==
    { row \in [type : JobTypes, status : {"active"}, schedule : 1..MaxSchedule,
               next_run_at : {Null} \cup 0..MaxSchedule,
               max_retries : {CreateMaxRetries(m) : m \in RequestedMaxRetries},
               priority : {DefaultPriority}, timeout : {DefaultTimeout},
               retry_delay : {DefaultRetryDelay}, tenant_id : {OwnerTenant},
               last_run_at : {Null}, run_count : {0}, fail_count : {0}] :
        IF row.type = "one_time"
        THEN row.schedule = 1 /\ row.next_run_at \in {Null, 1}
        ELSE row.next_run_at = CalculateNextRun(row, 0).next }

Quiet ==
    /\ execs = <<>>
    /\ history = [j \in JobIds |-> NoHistory]
    /\ pc = [r \in Replicas |-> "idle"]
    /\ todo = [r \in Replicas |-> <<>>]
    /\ queue = [r \in Replicas |-> <<>>]
    /\ worker = [r \in Replicas |-> [w \in Workers |-> Idle]]
    /\ timers = {}
    /\ upsert = NoUpserts
    /\ pool = NewWorkerPool
    /\ api = NoRequest
    /\ trace = <<>>

Init ==
    /\ now = 0
    /\ lock = NoLock
    /\ holds = [r \in Replicas |-> FALSE]
    /\ lapsed = {}
    /\ leaseLost = FALSE
    /\ ret = [r \in Replicas |-> [op |-> "none", val |-> FALSE, err |-> FALSE]]
    /\ jobs \in [JobIds -> InitialJobs]
    /\ Quiet

Next ==
    \/ \E r \in Replicas : SweepAcquire(r)
    \/ \E r \in Replicas : SweepFetch(r)
    \/ \E r \in Replicas : Len(execs) < MaxExecs /\ SweepDispatch(r)
    \/ \E r \in Replicas : SweepRelease(r)
    \/ \E r \in Replicas : Heartbeat(r)
    \/ Tick
    \/ \E r \in Replicas, w \in Workers : WorkerStart(r, w)
    \/ \E r \in Replicas, w \in Workers, o \in Outcomes, d \in Durations :
           WorkerFinish(r, w, o, d)
    \/ \E t \in timers : RetryFire(t)
    \/ \E id \in ExecIds : Cancel(id)

Spec == Init /\ [][Next]_vars

\* One scheduler process on its own: executions of one job enter through
\* TriggerJob and run through the worker pool, the retry timers and Cancel.
ThisReplica == CHOOSE r \in Replicas : TRUE
ThisJob == CHOOSE j \in JobIds : TRUE

IntervalJobs == {row \in InitialJobs : row.type = "interval" /\ row.schedule = 1}

InitExec ==
    /\ now = 0
    /\ lock = NoLock
    /\ holds = [r \in Replicas |-> FALSE]
    /\ lapsed = {}
    /\ leaseLost = FALSE
    /\ ret = [r \in Replicas |-> [op |-> "none", val |-> FALSE, err |-> FALSE]]
    /\ \E row \in IntervalJobs :
          jobs = [j \in JobIds |-> IF j = ThisJob THEN row
                                   ELSE CHOOSE other \in IntervalJobs : TRUE]
    /\ Quiet

NextExec ==
    \/ Len(execs) < MaxTriggers /\ TriggerJob(ThisReplica, ThisJob)
    \/ \E w \in Workers : WorkerStart(ThisReplica, w)
    \/ \E w \in Workers, o \in Outcomes, d \in Durations :
           WorkerFinish(ThisReplica, w, o, d)
    \/ \E t \in timers : RetryFire(t)
    \/ \E id \in ExecIds : Cancel(id)
    \/ Tick

SpecExec == InitExec /\ [][NextExec]_vars

\* The same process with its goroutines scheduled fairly: a worker with a
\* task in the queue takes it, a pending HTTP call returns (the per-attempt
\* deadline bounds it), a retry timer that is due fires, and time passes.
\* Triggers and cancellations come from outside and are not forced.
NextLive ==
    \/ Len(execs) < MaxTriggers /\ TriggerJob(ThisReplica, ThisJob)
    \/ \E w \in Workers : WorkerStart(ThisReplica, w)
    \/ \E w \in Workers, o \in Outcomes, d \in Durations :
           WorkerFinish(ThisReplica, w, o, d)
    \/ TimerStep
    \/ \E id \in ExecIds : Cancel(id)
    \/ Tick

SpecLive ==
    /\ InitExec
    /\ [][NextLive]_vars
    /\ WF_vars(\E w \in Workers : WorkerStart(ThisReplica, w))
    /\ WF_vars(\E w \in Workers, o \in Outcomes, d \in Durations :
                  WorkerFinish(ThisReplica, w, o, d))
    /\ WF_vars(TimerStep)
    /\ WF_vars(Tick)

\* One scheduler process under load, after QueueCapacity executions of the
\* job were triggered at time 0 and wait in the queue; one more trigger may
\* arrive.  The endpoint answers the call of the first execution with 200 or
\* 503 and every other call with 200, always before the deadline; nothing is
\* cancelled and the process is not stopped.  The workers, the retry timers
\* and the clock are scheduled fairly.
InitRefill ==
    /\ now = 0
    /\ lock = NoLock
    /\ holds = [r \in Replicas |-> FALSE]
    /\ lapsed = {}
    /\ leaseLost = FALSE
    /\ ret = [r \in Replicas |-> [op |-> "none", val |-> FALSE, err |-> FALSE]]
    /\ jobs = [j \in JobIds |->
                 CHOOSE row \in IntervalJobs : row.max_retries = MaxRetriesBound]
    /\ execs = [i \in 1..QueueCapacity |-> NewExecution(ThisJob, 0)]
    /\ trace = [i \in 1..QueueCapacity |-> [NoTrace EXCEPT !.origin = "trigger"]]
    /\ queue = [r \in Replicas |->
                  IF r = ThisReplica
                  THEN [i \in 1..QueueCapacity |->
                           [job |-> Snapshot(ThisJob), exec |-> i, attempt |-> 1]]
                  ELSE <<>>]
    /\ history = [j \in JobIds |-> NoHistory]
    /\ pc = [r \in Replicas |-> "idle"]
    /\ todo = [r \in Replicas |-> <<>>]
    /\ worker = [r \in Replicas |-> [w \in Workers |-> Idle]]
    /\ timers = {}
    /\ upsert = NoUpserts
    /\ pool = NewWorkerPool
    /\ api = NoRequest

RetryStep ==
    \/ \E w \in Workers : WorkerStart(ThisReplica, w)
    \/ \E w \in Workers, o \in {200, 503}, d \in Durations :
           /\ worker[ThisReplica][w].busy
           /\ o = 503 => worker[ThisReplica][w].task.exec = 1
           /\ WorkerFinish(ThisReplica, w, o, d)

NextRefill ==
    \/ Len(execs) < QueueCapacity + 1 /\ TriggerJob(ThisReplica, ThisJob)
    \/ RetryStep
    \/ TimerStep
    \/ Tick

SpecRefill ==
    /\ InitRefill
    /\ [][NextRefill]_vars
    /\ WF_vars(RetryStep)
    /\ WF_vars(TimerStep)
    /\ WF_vars(Tick)

\* One scheduler process whose worker pool is saturated: QueueCapacity
\* executions of the job were triggered at time 0 and wait in the queue when
\* the job comes due.  Every HTTP call is answered with 200; the loops and the
\* workers keep running.
FullQueue ==
    [i \in 1..QueueCapacity |->
        [job |-> Snapshot(ThisJob), exec |-> i, attempt |-> 1]]

InitOverflow ==
    /\ now = 0
    /\ lock = NoLock
    /\ holds = [r \in Replicas |-> FALSE]
    /\ lapsed = {}
    /\ leaseLost = FALSE
    /\ ret = [r \in Replicas |-> [op |-> "none", val |-> FALSE, err |-> FALSE]]
    /\ jobs = [j \in JobIds |-> CHOOSE row \in IntervalJobs : row.max_retries = 1]
    /\ execs = [i \in 1..QueueCapacity |-> NewExecution(ThisJob, 0)]
    /\ trace = [i \in 1..QueueCapacity |-> [NoTrace EXCEPT !.origin = "trigger"]]
    /\ queue = [r \in Replicas |-> IF r = ThisReplica THEN FullQueue ELSE <<>>]
    /\ history = [j \in JobIds |-> NoHistory]
    /\ pc = [r \in Replicas |-> "idle"]
    /\ todo = [r \in Replicas |-> <<>>]
    /\ worker = [r \in Replicas |-> [w \in Workers |-> Idle]]
    /\ timers = {}
    /\ upsert = NoUpserts
    /\ pool = NewWorkerPool
    /\ api = NoRequest

SweepStep ==
    \/ SweepAcquire(ThisReplica)
    \/ SweepFetch(ThisReplica)
    \/ Len(execs) < QueueCapacity + MaxExecs /\ SweepDispatch(ThisReplica)
    \/ SweepRelease(ThisReplica)

WorkerStep ==
    \/ \E w \in Workers : WorkerStart(ThisReplica, w)
    \/ \E w \in Workers, d \in Durations : WorkerFinish(ThisReplica, w, 200, d)

NextOverflow ==
    \/ SweepStep
    \/ WorkerStep
    \/ Tick

SpecOverflow ==
    /\ InitOverflow
    /\ [][NextOverflow]_vars
    /\ WF_vars(SweepStep)
    /\ WF_vars(WorkerStep)
    /\ WF_vars(Tick)

\* One scheduler process sweeping while the HTTP API serves requests of every
\* tenant on the jobs and their executions.
ServiceJobs ==
    {row \in InitialJobs : row.max_retries = DefaultMaxRetries /\ row.schedule = 1}

InitJobs ==
    /\ now = 0
    /\ lock = NoLock
    /\ holds = [r \in Replicas |-> FALSE]
    /\ lapsed = {}
    /\ leaseLost = FALSE
    /\ ret = [r \in Replicas |-> [op |-> "none", val |-> FALSE, err |-> FALSE]]
    /\ jobs \in [JobIds -> ServiceJobs]
    /\ Quiet

NextJobs ==
    \/ SweepAcquire(ThisReplica)
    \/ SweepFetch(ThisReplica)
    \/ Len(execs) < MaxTriggers /\ SweepDispatch(ThisReplica)
    \/ SweepRelease(ThisReplica)
    \/ Tick
    \/ \E t \in Tenants, j \in JobIds : Pause(t, j)
    \/ \E t \in Tenants, j \in JobIds : Resume(t, j)
    \/ \E t \in Tenants, j \in JobIds, req \in UpdateJobRequests : Update(t, j, req)
    \/ ServiceSave
    \/ \E t \in Tenants, j \in JobIds : DeleteJob(t, j)
    \/ \E t \in Tenants, j \in JobIds : Len(execs) < MaxTriggers /\ Trigger(ThisReplica, t, j)
    \/ \E t \in Tenants, id \in ExecIds : ExecutionCancel(t, id)

SpecJobs == InitJobs /\ [][NextJobs]_vars

\* One scheduler process sweeping while the jobs' owner pauses and resumes
\* them.
NextPause ==
    \/ SweepAcquire(ThisReplica)
    \/ SweepFetch(ThisReplica)
    \/ Len(execs) < MaxExecs /\ SweepDispatch(ThisReplica)
    \/ SweepRelease(ThisReplica)
    \/ Tick
    \/ \E j \in JobIds : Pause(OwnerTenant, j)
    \/ \E j \in JobIds : Resume(OwnerTenant, j)
    \/ ServiceSave

SpecPause == InitJobs /\ [][NextPause]_vars

\* One scheduler process sweeping a table in which more jobs are due than
\* one fetch returns: DueLimit + 1 interval jobs of several priorities, due
\* at time 0 or 1, the clock at 1 for the length of the sweeps.
ManyJobs == 1..(DueLimit + 1)

JobTable(seed) ==
    [j \in ManyJobs |->
        [type |-> "interval", status |-> "active", schedule |-> 1,
         next_run_at |-> (j \div PriorityLevels) % 2,
         max_retries |-> DefaultMaxRetries,
         priority |-> DefaultPriority + ((j * seed) % PriorityLevels),
         tenant_id |-> OwnerTenant,
         last_run_at |-> Null, run_count |-> 0, fail_count |-> 0]]

InitOrder ==
    /\ now = 1
    /\ lock = NoLock
    /\ holds = [r \in Replicas |-> FALSE]
    /\ lapsed = {}
    /\ leaseLost = FALSE
    /\ ret = [r \in Replicas |-> [op |-> "none", val |-> FALSE, err |-> FALSE]]
    /\ \E seed \in 1..PriorityLevels : jobs = JobTable(seed)
    /\ Quiet

NextOrder ==
    \/ SweepAcquire(ThisReplica)
    \/ SweepFetch(ThisReplica)
    \/ SweepDispatch(ThisReplica)
    \/ SweepRelease(ThisReplica)

SpecOrder == InitOrder /\ [][NextOrder]_vars

\* The replicas sweeping a recurring job while replicas are killed or
\* stopped, at least one staying up.  The clock keeps running at the store
\* after `now` has reached MaxTime, and every running replica keeps ticking.
Clock ==
    \/ Tick
    \/ now = MaxTime /\ StoreTick

SweepOf(r) ==
    \/ SweepAcquire(r)
    \/ SweepFetch(r)
    \/ SweepFetchFails(r)
    \/ SweepDispatch(r)
    \/ SweepRelease(r)

InitFailover ==
    /\ now = 0
    /\ lock = NoLock
    /\ holds = [r \in Replicas |-> FALSE]
    /\ lapsed = {}
    /\ leaseLost = FALSE
    /\ ret = [r \in Replicas |-> [op |-> "none", val |-> FALSE, err |-> FALSE]]
    /\ jobs = [j \in JobIds |->
                  IF j = ThisJob
                  THEN CHOOSE row \in InitialJobs :
                           /\ row.type = "interval"
                           /\ row.schedule = MaxSchedule
                           /\ row.max_retries = 1
                  ELSE CHOOSE row \in InitialJobs :
                           row.type = "one_time" /\ row.next_run_at = Null]
    /\ Quiet

NextFailover ==
    \/ \E r \in Replicas : SweepOf(r)
    \/ \E r \in Replicas : Heartbeat(r)
    \/ \E r \in Replicas : Kill(r)
    \/ \E r \in Replicas : Stop(r)
    \/ Clock

SpecFailover ==
    /\ InitFailover
    /\ [][NextFailover]_vars
    /\ WF_vars(Clock)
    /\ \A r \in Replicas : WF_vars(SweepAcquire(r) \/ SweepFetch(r) \/ SweepDispatch(r) \/ SweepRelease(r))

\* The schedule functions on their own, on every job type (one that is not a
\* job type included) and every schedule string, at any time.
ScheduleInputs == [type : JobTypes \cup {"unknown"}, schedule : ScheduleStrings]

InitSchedule ==
    /\ now = 0
    /\ lock = NoLock
    /\ holds = [r \in Replicas |-> FALSE]
    /\ lapsed = {}
    /\ leaseLost = FALSE
    /\ ret = [r \in Replicas |-> [op |-> "none", val |-> FALSE, err |-> FALSE]]
    /\ jobs = [j \in JobIds |-> CHOOSE row \in InitialJobs : TRUE]
    /\ execs = <<>>
    /\ history = [j \in JobIds |-> NoHistory]
    /\ pc = [r \in Replicas |-> "idle"]
    /\ todo = [r \in Replicas |-> <<>>]
    /\ queue = [r \in Replicas |-> <<>>]
    /\ worker = [r \in Replicas |-> [w \in Workers |-> Idle]]
    /\ timers = {}
    /\ upsert = NoUpserts
    /\ pool = NewWorkerPool
    /\ trace = <<>>
    /\ \E in \in ScheduleInputs : api = [NoRequest EXCEPT !.op = "schedule", !.job = <<in>>]

NextSchedule ==
    \/ Validate
    \/ Calculate
    \/ Tick

SpecSchedule == InitSchedule /\ [][NextSchedule]_vars

\* Cleanup on its own: a table of executions of every status and age, and
\* cleanup run with any retention, at any time.
StoredExecution(status, t) ==
    [NewExecution(ThisJob, t) EXCEPT
        !.status = status,
        !.started_at = IF status = "pending" THEN Null ELSE t,
        !.completed_at = IF status \in Terminal THEN t ELSE Null,
        !.duration = IF status \in Terminal THEN 0 ELSE Null]

InitCleanup ==
    /\ now = 0
    /\ lock = NoLock
    /\ holds = [r \in Replicas |-> FALSE]
    /\ lapsed = {}
    /\ leaseLost = FALSE
    /\ ret = [r \in Replicas |-> [op |-> "none", val |-> FALSE, err |-> FALSE]]
    /\ jobs = [j \in JobIds |-> CHOOSE row \in InitialJobs : TRUE]
    /\ execs \in [1..MaxExecs -> {StoredExecution(st, t) : st \in ExecStatuses, t \in 0..MaxTime}]
    /\ trace = [e \in 1..MaxExecs |-> NoTrace]
    /\ history = [j \in JobIds |-> NoHistory]
    /\ pc = [r \in Replicas |-> "idle"]
    /\ todo = [r \in Replicas |-> <<>>]
    /\ queue = [r \in Replicas |-> <<>>]
    /\ worker = [r \in Replicas |-> [w \in Workers |-> Idle]]
    /\ timers = {}
    /\ upsert = NoUpserts
    /\ pool = NewWorkerPool
    /\ api = NoRequest

NextCleanup ==
    \/ \E days \in (0 - 1)..MaxTime : cleanup(days)
    \/ Tick

SpecCleanup == InitCleanup /\ [][NextCleanup]_vars

\* JobService.Create, the whole call: the schedule is validated, a timeout,
\* max_retries or priority of 0 gets its default and any other number is
\* stored as requested, next_run_at is set when CalculateNextRun returns a
\* time, and the row is inserted.  req.retry_delay is not copied into the
\* job: the column gets gorm's default.
Create(tenantID, req) ==
    /\ api.op = "none"
    /\ IF validateSchedule(req.type, req.schedule)
       THEN /\ api' = Respond(tenantID, 0, "rejected")
            /\ UNCHANGED jobs
       ELSE LET job == [type |-> req.type, status |-> "active",
                        schedule |-> req.schedule, next_run_at |-> Null,
                        max_retries |-> CreateMaxRetries(req.max_retries),
                        priority |-> IF req.priority = 0 THEN DefaultPriority
                                     ELSE req.priority,
                        timeout |-> IF req.timeout = 0 THEN DefaultTimeout
                                    ELSE req.timeout,
                        retry_delay |-> DefaultRetryDelay,
                        tenant_id |-> tenantID, last_run_at |-> Null,
                        run_count |-> 0, fail_count |-> 0]
                nextRunAt == CalculateNextRun(job, now)
            IN  /\ jobs' = Append(jobs,
                               IF ~nextRunAt.err /\ nextRunAt.next # Null
                               THEN [job EXCEPT !.next_run_at = nextRunAt.next]
                               ELSE job)
                /\ api' = Respond(tenantID, Len(jobs) + 1, "created")
    /\ UNCHANGED <<now, lockVars, execs, history, pc, todo, queue, worker, timers, upsert, pool, trace>>

\* The job API on an empty table: Create and Update with requested numbers
\* below, at and above each limit, and the clock.
CreateJobRequests ==
    [type : JobTypes, schedule : {Malformed, 1}, max_retries : {0},
     timeout : {0 - 1, 0, 1}, priority : {0 - 1, 0, 1, 10, 11},
     retry_delay : {0, RetryDelaySeconds + 1}]

UpdateLimits ==
    [schedule : {<<>>}, priority : {0 - 1, 0, 1, 10, 11}, timeout : {0 - 1, 0, 1}]

InitCreate ==
    /\ now = 0
    /\ lock = NoLock
    /\ holds = [r \in Replicas |-> FALSE]
    /\ lapsed = {}
    /\ leaseLost = FALSE
    /\ ret = [r \in Replicas |-> [op |-> "none", val |-> FALSE, err |-> FALSE]]
    /\ jobs = <<>>
    /\ Quiet

NextCreate ==
    \/ \E req \in CreateJobRequests :
           Len(jobs) < NumJobs /\ Create(OwnerTenant, req)
    \/ \E j \in DOMAIN jobs, req \in UpdateLimits : Update(OwnerTenant, j, req)
    \/ ServiceSave
    \/ Tick

SpecCreate == InitCreate /\ [][NextCreate]_vars

\* Every variable but api at its value after construction.
Unused ==
    /\ now = 0
    /\ lock = NoLock
    /\ holds = [r \in Replicas |-> FALSE]
    /\ lapsed = {}
    /\ leaseLost = FALSE
    /\ ret = [r \in Replicas |-> [op |-> "none", val |-> FALSE, err |-> FALSE]]
    /\ jobs = [j \in JobIds |-> CHOOSE row \in InitialJobs : TRUE]
    /\ execs = <<>>
    /\ history = [j \in JobIds |-> NoHistory]
    /\ pc = [r \in Replicas |-> "idle"]
    /\ todo = [r \in Replicas |-> <<>>]
    /\ queue = [r \in Replicas |-> <<>>]
    /\ worker = [r \in Replicas |-> [w \in Workers |-> Idle]]
    /\ timers = {}
    /\ upsert = NoUpserts
    /\ pool = NewWorkerPool
    /\ trace = <<>>

\* ExecuteWithRetry on its own: every maxRetries, every sequence of outcomes
\* of the requests, the status codes on both sides of each class boundary.
HttpOutcomes == Outcomes \cup {302, 400, 499, 500}

InitRetry ==
    /\ Unused
    /\ \E m \in 0..MaxRetriesBound : api = RetryCall(m)

NextRetry ==
    \/ \E outcome \in HttpOutcomes : RetryLoop(outcome)
    \/ RetryWaitCancelled

SpecRetry == InitRetry /\ [][NextRetry]_vars

\* The lock API on its own: every replica calls it in any order.
InitLock ==
    /\ now = 0
    /\ lock = NoLock
    /\ holds = [r \in Replicas |-> FALSE]
    /\ lapsed = {}
    /\ leaseLost = FALSE
    /\ ret = [r \in Replicas |-> [op |-> "none", val |-> FALSE, err |-> FALSE]]
    /\ jobs = [j \in JobIds |-> CHOOSE row \in InitialJobs : TRUE]
    /\ Quiet

NextLock ==
    \/ \E r \in Replicas : CallAcquireLock(r)
    \/ \E r \in Replicas : CallReleaseLock(r)
    \/ \E r \in Replicas : CallRefreshLock(r)
    \/ \E r \in Replicas : CallIsLockHeld(r)
    \/ StoreTick

SpecLock == InitLock /\ [][NextLock]_vars

\* The history repository on its own: callers run IncrementSuccess and
\* IncrementFailure on one (job_id, date) in any interleaving.
InitHistory ==
    /\ now = 0
    /\ lock = NoLock
    /\ holds = [r \in Replicas |-> FALSE]
    /\ lapsed = {}
    /\ leaseLost = FALSE
    /\ ret = [r \in Replicas |-> [op |-> "none", val |-> FALSE, err |-> FALSE]]
    /\ jobs = [j \in JobIds |-> CHOOSE row \in InitialJobs : TRUE]
    /\ Quiet

NextHistory ==
    \/ \E c \in Callers, op \in {"success", "failure"}, d \in Durations :
           UpsertRead(c, op, d)
    \/ \E c \in Callers : UpsertWrite(c)

SpecHistory == InitHistory /\ [][NextHistory]_vars

\* The worker pool on its own: Start, Submit, the workers and Stop in any
\* order, each call of Submit and of Stop taken whole.
NextPool ==
    \/ PoolStart
    \/ \E t \in Tasks : PoolSubmit(t)
    \/ \E w \in Workers : WorkerReceive(w)
    \/ \E w \in Workers : WorkerExit(w)
    \/ \E w \in Workers : WorkerReturn(w)
    \/ \E w \in Workers : WorkerPanic(w)
    \/ PoolStop
    \/ PoolStopReturn

SpecPool == InitHistory /\ [][NextPool]_vars

\* The worker pool with Submit and Stop interleaved statement by statement:
\* each caller makes one call of Submit, Stop is called once.
InitRace ==
    /\ Unused
    /\ api = NoSubmits

NextRace ==
    \/ PoolStart
    \/ \E c \in Callers : SubmitCheck(c)
    \/ \E c \in Callers : SubmitSend(c)
    \/ \E w \in Workers : WorkerReceive(w)
    \/ \E w \in Workers : WorkerExit(w)
    \/ \E w \in Workers : WorkerReturn(w)
    \/ StopFlag
    \/ StopClose
    \/ PoolStopReturn

SpecRace == InitRace /\ [][NextRace]_vars

\* The worker pool on its own, created with any configured number of workers
\* from 0 up.
InitSize ==
    /\ now = 0
    /\ lock = NoLock
    /\ holds = [r \in Replicas |-> FALSE]
    /\ lapsed = {}
    /\ leaseLost = FALSE
    /\ ret = [r \in Replicas |-> [op |-> "none", val |-> FALSE, err |-> FALSE]]
    /\ jobs = [j \in JobIds |-> CHOOSE row \in InitialJobs : TRUE]
    /\ execs = <<>>
    /\ history = [j \in JobIds |-> NoHistory]
    /\ pc = [r \in Replicas |-> "idle"]
    /\ todo = [r \in Replicas |-> <<>>]
    /\ queue = [r \in Replicas |-> <<>>]
    /\ worker = [r \in Replicas |-> [w \in Workers |-> Idle]]
    /\ timers = {}
    /\ upsert = NoUpserts
    /\ api = NoRequest
    /\ trace = <<>>
    /\ \E workers \in 0..WorkerCount : pool = NewPool(workers)

SpecSize == InitSize /\ [][NextPool]_vars

\* ------------------------------------------------------------ lock claims
ActiveHolders == {r \in Replicas : holds[r] /\ r \notin lapsed}

\* C1: while no acquisition has outlived its TTL, at most one replica holds
\* scheduler:leader, the holder is the owner stored under the key, and a true
\* result of AcquireLock was given only to the replica that became the owner.
C1_OneLeader ==
    /\ Cardinality(ActiveHolders) <= 1
    /\ \A r \in ActiveHolders : IsLockHeld(lock, r)
    /\ \A r \in Replicas :
         (ret[r].op = "AcquireLock" /\ ret[r].val /\ r \notin lapsed) => lock.owner = r

C1_Witness ==
    \E r, q \in Replicas :
        /\ r # q
        /\ ret[r] = [op |-> "AcquireLock", val |-> TRUE, err |-> FALSE]
        /\ ret[q] = [op |-> "AcquireLock", val |-> FALSE, err |-> FALSE]
        /\ lock.owner = r

\* C2: ReleaseLock by a replica that is not the owner of the key leaves the key,
\* its owner and its TTL as they were, reports no error, and IsLockHeld of the
\* actual owner is still true afterwards.
C2_ForeignRelease ==
    [][\A r \in Replicas :
         (CallReleaseLock(r) /\ lock.owner # r) =>
            /\ lock' = lock
            /\ ret'[r].err = FALSE
            /\ (lock.owner # NoOwner => IsLockHeld(lock', lock.owner))]_vars

C2_Witness ==
    \E r, o \in Replicas :
        /\ r # o
        /\ leaseLost
        /\ ret[r].op = "ReleaseLock"
        /\ ~holds[r]
        /\ lock.owner = o
        /\ ret[o] = [op |-> "IsLockHeld", val |-> TRUE, err |-> FALSE]

\* C3: RefreshLock sets the TTL back to the full TTL when the stored owner is
\* the caller and changes nothing otherwise; it never creates the key.
C3_RefreshFrame ==
    [][\A r \in Replicas :
         CallRefreshLock(r) =>
            IF lock.owner = r
            THEN lock' = [owner |-> r, ttl |-> LockTTL]
            ELSE lock' = lock]_vars

C3_Witness ==
    \E r \in Replicas :
        /\ ret[r].op = "RefreshLock"
        /\ lock.owner \notin {r, NoOwner}
        /\ lock.ttl < LockTTL

\* ------------------------------------------------- dispatch and execution claims
SweepRows(j) == {e \in ExecIds : execs[e].job_id = j /\ trace[e].origin = "sweep"}

\* C4: while no leader lock has expired under its holder, every fire time of
\* a job (every value of next_run_at that became due) has exactly one
\* execution row made by the sweep: no later sweep dispatches it again.
C4_OncePerFire ==
    ~leaseLost =>
        \A j \in JobIds : \A a, b \in SweepRows(j) :
            trace[a].fire = trace[b].fire => a = b

\* The same for cron and interval jobs only.
C4_OncePerFireRecurring ==
    ~leaseLost =>
        \A j \in JobIds : \A a, b \in SweepRows(j) :
            (jobs[j].type # "one_time" /\ trace[a].fire = trace[b].fire) => a = b

\* C5: the sweep creates at most one execution row for a one_time job.
C5_OneTimeOnce ==
    \A j \in JobIds : jobs[j].type = "one_time" => Cardinality(SweepRows(j)) <= 1

\* C6: a worker has an HTTP call in flight only if its own MarkAsRunning
\* changed the row from pending to running.
C6_RunOnlyIfMarked ==
    \A r \in Replicas, w \in Workers : worker[r][w].busy => worker[r][w].marked

\* C7: an execution whose status is terminal keeps that status.
C7_TerminalIsFinal ==
    [][\A e \in ExecIds :
         execs[e].status \in Terminal => execs'[e].status = execs[e].status]_vars

\* C8: Cancel sets status = cancelled and completed_at = now on a pending or
\* running row and changes no other field; on a row in any other status it
\* changes nothing.
C8_CancelFrame ==
    [][\A id \in ExecIds :
         Cancel(id) =>
            IF execs[id].status \in {"pending", "running"}
            THEN execs' = [execs EXCEPT ![id].status = "cancelled",
                                        ![id].completed_at = now]
            ELSE execs' = execs]_vars

C8_Witness ==
    \E e \in ExecIds :
        /\ execs[e].status = "cancelled"
        /\ execs[e].started_at # Null
        /\ execs[e].completed_at # Null

\* C9: a status change of an execution that is not terminal follows an edge
\* of the state machine; from retrying the only edge is to pending.
Edges ==
    {<<"pending", "running">>, <<"pending", "cancelled">>,
     <<"running", "completed">>, <<"running", "failed">>, <<"running", "retrying">>,
     <<"running", "cancelled">>, <<"running", "timeout">>,
     <<"retrying", "pending">>}

C9_Edges ==
    [][\A e \in ExecIds :
         (execs[e].status \notin Terminal /\ execs'[e].status # execs[e].status)
            => <<execs[e].status, execs'[e].status>> \in Edges]_vars

\* C10: when the attempt of a running execution ends with HTTP 400-499 other
\* than 429, the execution becomes failed with its attempt unchanged, no retry
\* is scheduled, and fail_count and the day's failure_count grow by one.
PermanentOutcomes == {o \in Outcomes : o >= 400 /\ o <= 499 /\ o # 429}

C10_PermanentFails ==
    [][\A r \in Replicas, w \in Workers, o \in PermanentOutcomes, d \in Durations :
         (WorkerFinish(r, w, o, d) /\ execs[worker[r][w].task.exec].status = "running") =>
            LET e == worker[r][w].task.exec
                j == worker[r][w].task.job.id
            IN  /\ execs'[e].status = "failed"
                /\ execs'[e].attempt = execs[e].attempt
                /\ timers' = timers
                /\ jobs'[j].fail_count = jobs[j].fail_count + 1
                /\ history'[j].failure_count = history[j].failure_count + 1]_vars

\* ------------------------------------------------------------ retry claims
TransientOutcomes == {o \in Outcomes : o >= 500 \/ o = 429 \/ o = TransportError}

\* Every attempt of the task's execution so far ended in a response or a
\* transport error: the persisted attempt is the attempt the task carries.
InStep(task) == execs[task.exec].attempt = task.attempt

C12_AttemptRange ==
    \A e \in ExecIds :
        /\ 1 <= execs[e].attempt
        /\ execs[e].attempt <= jobs[execs[e].job_id].max_retries + 1

\* C13: when the per-attempt deadline runs out during the HTTP call of a
\* running execution, the execution ends with status timeout, and fail_count
\* of the job and failure_count of the day's history row each grow by one.
C13_TimeoutStatus ==
    [][\A r \in Replicas, w \in Workers, d \in Durations :
         (WorkerFinish(r, w, DeadlineExceeded, d)
            /\ execs[worker[r][w].task.exec].status = "running") =>
            LET e == worker[r][w].task.exec
                j == worker[r][w].task.job.id
            IN  /\ execs'[e].status = "timeout"
                /\ jobs'[j].fail_count = jobs[j].fail_count + 1
                /\ history'[j].failure_count = history[j].failure_count + 1]_vars

\* ------------------------------------------------------- accounting claims
WithStatus(j, st) == {e \in ExecIds : execs[e].job_id = j /\ execs[e].status = st}

\* C14: only the terminal transition of an execution reaches the history:
\* the day's success_count is the number of executions of the job that are
\* completed and its failure_count the number that are failed, however often
\* each was retried; a step that marks an execution retrying changes neither
\* the history row nor run_count and fail_count of the job.
C14_TerminalOnly ==
    /\ [](\A j \in JobIds :
            /\ history[j].success_count = Cardinality(WithStatus(j, "completed"))
            /\ history[j].failure_count = Cardinality(WithStatus(j, "failed")))
    /\ [][\A e \in ExecIds :
            (execs'[e].status = "retrying" /\ execs'[e].attempt # execs[e].attempt) =>
               /\ history' = history
               /\ jobs'[execs[e].job_id].run_count = jobs[execs[e].job_id].run_count
               /\ jobs'[execs[e].job_id].fail_count = jobs[execs[e].job_id].fail_count]_vars

\* An execution that was retried and then succeeded, counted once.
C14_Witness ==
    \E e \in ExecIds :
        /\ execs[e].status = "completed"
        /\ execs[e].attempt >= 2
        /\ history[execs[e].job_id].success_count = 1
        /\ history[execs[e].job_id].failure_count = 0

\* C15: a history row with success_count > 0 has avg_duration equal to
\* total_duration / success_count, and min_duration <= avg_duration <=
\* max_duration.
C15_AvgInvariant ==
    \A j \in JobIds :
        (history[j].present /\ history[j].success_count > 0) =>
            /\ history[j].avg_duration = history[j].total_duration \div history[j].success_count
            /\ history[j].min_duration <= history[j].avg_duration
            /\ history[j].avg_duration <= history[j].max_duration

\* C16: once the concurrent IncrementSuccess and IncrementFailure calls on one
\* (job_id, date) have returned, the table holds exactly one row for it, and
\* its success_count, failure_count and total_duration are those of all the
\* calls made.
C16_AtomicUpsert ==
    ((\A c \in Callers : upsert.at[c].pc = "idle") /\ upsert.started > 0) =>
        /\ Cardinality(upsert.rows) = 1
        /\ \A row \in upsert.rows :
              /\ row.success_count = upsert.returned.success
              /\ row.failure_count = upsert.returned.failure
              /\ row.total_duration = upsert.returned.duration

C18_SubmitContract ==
    [][\A t \in Tasks :
         PoolSubmit(t) =>
            /\ (~pool'.last.accepted) <=>
                   (Len(pool.taskQueue) = QueueFactor * WorkerCount \/ ~pool.running)
            /\ pool'.last.accepted => pool'.taskQueue = Append(pool.taskQueue, t)
            /\ ~pool'.last.accepted => pool'.taskQueue = pool.taskQueue]_vars

\* Submit has refused a task of a running pool whose queue was full.
C18_Witness ==
    /\ pool.running
    /\ Len(pool.taskQueue) = QueueFactor * WorkerCount
    /\ pool.last.task > 0
    /\ ~pool.last.accepted
    /\ pool.last.task - 1 \in pool.accepted

\* C19: when Stop has returned, every task that Submit accepted has been
\* handed to the worker function exactly once.
C19_StopDrains ==
    pool.stop = "returned" => \A t \in pool.accepted : pool.handed[t] = 1

\* C20: a panic of the worker function is recovered: the process goes on and
\* all WorkerCount workers are alive afterwards, the one that ran the task
\* ready for the next one.
C20_PanicRecovered ==
    [][\A w \in Workers :
         WorkerPanic(w) =>
            /\ ~pool'.crashed
            /\ pool'.at[w] = "idle"
            /\ \A v \in Workers \ {w} : pool'.at[v] = pool.at[v]]_vars

\* ------------------------------------------------------- sweep claims
\* C21: an execution row that the sweep created and that is pending, its
\* Submit refused or not, eventually leaves pending for running while the
\* loops and the workers keep going.
C21_OverflowRuns ==
    \A e \in (QueueCapacity + 1)..(QueueCapacity + MaxExecs) :
        (e \in ExecIds /\ trace[e].origin = "sweep" /\ execs[e].status = "pending")
            ~> (e \in ExecIds /\ execs[e].status # "pending")

C23_DeletedIsFinal ==
    [][\A j \in JobIds : jobs[j].status = "deleted" => jobs'[j].status = "deleted"]_vars

\* C24: for every execution row the sweep created for a cron or interval
\* job, the job's next_run_at is later than the row's scheduled_at.
C24_NextRunAdvances ==
    \A e \in ExecIds :
        (trace[e].origin = "sweep" /\ jobs[execs[e].job_id].type \in {"cron", "interval"}) =>
            jobs[execs[e].job_id].next_run_at > execs[e].scheduled_at

\* C28: a request served for tenant t leaves every job of another tenant and
\* every execution of another tenant's job as they were.
C28_TenantScoped ==
    [][\A t \in Tenants :
          (api' # api /\ api'.tenant = t) =>
              /\ \A j \in JobIds : jobs[j].tenant_id # t => jobs'[j] = jobs[j]
              /\ \A e \in ExecIds :
                    jobs[execs[e].job_id].tenant_id # t => execs'[e] = execs[e]]_vars

\* C25: a fetch returns at most 100 jobs, ordered by priority descending and
\* then next_run_at ascending, none of the due jobs it leaves out comes
\* before one it returns, and every iteration of the loop submits the task of
\* the job at the head of what is left of the list.
C25_FetchOrder ==
    [][\A r \in Replicas :
          /\ SweepFetch(r) =>
                LET got == todo'[r]
                    ids == {got[i].id : i \in 1..Len(got)}
                IN  /\ Len(got) <= 100
                    /\ \A i \in 1..Len(got) : \A k \in (i + 1)..Len(got) :
                          \/ jobs[got[i].id].priority > jobs[got[k].id].priority
                          \/ /\ jobs[got[i].id].priority = jobs[got[k].id].priority
                             /\ got[i].next_run_at <= got[k].next_run_at
                    /\ \A j \in DOMAIN jobs :
                          (IsDue(jobs[j], now) /\ j \notin ids) =>
                              /\ Len(got) = 100
                              /\ \A i \in 1..Len(got) :
                                    jobs[j].priority <= jobs[got[i].id].priority
          /\ SweepDispatch(r) =>
                /\ todo'[r] = Tail(todo[r])
                /\ trace'[Len(trace')].fire = Head(todo[r]).next_run_at
                /\ Len(queue[r]) < QueueCapacity =>
                      queue'[r] = Append(queue[r],
                                    [job |-> Head(todo[r]), exec |-> Len(execs'), attempt |-> 1])]_vars

\* A sweep has fetched 100 of the due jobs, of more than one priority, and
\* has submitted the first of them.
C25_Witness ==
    \E r \in Replicas :
        /\ pc[r] = "loop"
        /\ Len(todo[r]) = 100 - 1
        /\ Len(queue[r]) = 1
        /\ jobs[queue[r][1].job.id].priority > jobs[todo[r][Len(todo[r])].id].priority
        /\ \E j \in DOMAIN jobs :
              /\ IsDue(jobs[j], now)
              /\ \A i \in 1..Len(todo[r]) : todo[r][i].id # j

\* ------------------------------------------------------- failover claims
\* C26: when the replica whose value is under the leader key is killed or
\* stopped, a running replica eventually owns the key and is in its sweep;
\* and from then on nothing extends the life of the key it left behind.
C26_Failover ==
    /\ (lock.owner # NoOwner /\ ~Running(lock.owner))
          ~> (\E q \in Replicas : Running(q) /\ lock.owner = q /\ pc[q] \in {"fetch", "loop"})
    /\ [][\A r \in Replicas :
             (~Running(r) /\ lock.owner = r /\ lock'.owner = r) => lock'.ttl <= lock.ttl]_vars

\* The key of a replica that is down has expired and a running replica has
\* acquired it.
C26_Witness ==
    \E r \in Replicas, q \in Replicas :
        /\ ~Running(r)
        /\ r \in lapsed
        /\ Running(q)
        /\ lock.owner = q
        /\ pc[q] = "fetch"

\* C30: a replica that is not inside processScheduledJobs, because the sweep
\* returned or because the scheduler was stopped, does not own the key.
C30_ReleasedOnExit ==
    \A r \in Replicas : pc[r] \in {"idle", "stopped"} => ~IsLockHeld(lock, r)

\* C27: on every job type and schedule string, validateSchedule returns an
\* error exactly when CalculateNextRun returns one.
C27_ValidateAgrees ==
    (api.op = "schedule" /\ api.resp # "none" /\ api.calc # "none") =>
        (api.resp = "rejected" <=> api.calc = "error")

\* C29: a pool created with a configured count below 1 has one worker, any
\* other pool as many as configured; with N the number of workers, the queue
\* never holds more than 10 x N tasks and never more than N tasks are with
\* the worker function.
C29_PoolBounds ==
    LET N == IF pool.configured < 1 THEN 1 ELSE pool.configured IN
    /\ Cardinality(DOMAIN pool.at) = N
    /\ Len(pool.taskQueue) <= 10 * N
    /\ Cardinality({w \in DOMAIN pool.at : pool.at[w] = "busy"}) <= N

\* A pool configured with 0 workers has its one worker busy and 10 tasks
\* queued.
C29_Witness ==
    /\ pool.configured = 0
    /\ Len(pool.taskQueue) = 10
    /\ \E w \in DOMAIN pool.at : pool.at[w] = "busy"

\* ------------------------------------------------------- cleanup claims
\* C31: whatever the cutoff, a run of cleanup leaves every execution that is
\* pending, running or retrying in the table, unchanged.
C31_CleanupKeepsLive ==
    [][\A days \in (0 - 1)..MaxTime :
          cleanup(days) =>
              \A e \in ExecIds :
                  execs[e].status \in {"pending", "running", "retrying"} =>
                      execs'[e] = execs[e]]_vars

\* Cleanup has deleted a row while a pending, running or retrying row as old
\* or older is still there.
C31_Witness ==
    \E d \in ExecIds, e \in ExecIds :
        /\ execs[d].status = "deleted"
        /\ execs[e].status \in {"pending", "running", "retrying"}
        /\ execs[e].created_at <= execs[d].created_at

\* ------------------------------------------------- ExecuteWithRetry claims
\* C32: a call of ExecuteWithRetry that has returned sent at most
\* maxRetries + 1 requests, went on after every transport error, 5xx and 429,
\* and stopped at the first success or non-retryable outcome (or at the
\* last permitted attempt).
C32_RetryDecision ==
    LET Retryable(o) == o = TransportError \/ o >= 500 \/ o = 429 IN
    (api.op = "ExecuteWithRetry" /\ api.ret \in {"ok", "error"}) =>
        LET n == Len(api.calls) IN
        /\ n <= api.maxRetries + 1
        /\ \A i \in 1..(n - 1) : Retryable(api.calls[i])
        /\ n = api.maxRetries + 1 \/ ~Retryable(api.calls[n])

\* ------------------------------------------------------ timestamp claims
\* C33: every execution that is completed, failed or timeout has started_at
\* and completed_at set, scheduled_at <= started_at <= completed_at, and
\* duration = completed_at - started_at >= 0.
C33_TerminalTimestamps ==
    \A e \in ExecIds :
        execs[e].status \in {"completed", "failed", "timeout"} =>
            /\ execs[e].started_at # Null
            /\ execs[e].completed_at # Null
            /\ execs[e].scheduled_at <= execs[e].started_at
            /\ execs[e].started_at <= execs[e].completed_at
            /\ execs[e].duration = execs[e].completed_at - execs[e].started_at
            /\ execs[e].duration >= 0

\* ------------------------------------------------------ job limit claims
\* C34: every stored job has timeout >= 1 and 1 <= priority <= 10.
C34_JobLimits ==
    \A j \in DOMAIN jobs :
        /\ jobs[j].timeout >= 1
        /\ jobs[j].priority >= 1
        /\ jobs[j].priority <= 10

\* C35: every active job has next_run_at set, unless it is a one_time job
\* that has already fired; a one_time job is created with a next_run_at.
C35_ActiveHasNextRun ==
    \A j \in DOMAIN jobs :
        jobs[j].status = "active" =>
            \/ jobs[j].next_run_at # Null
            \/ jobs[j].type = "one_time" /\ jobs[j].last_run_at # Null

\* ------------------------------------------------------ retry delay claims
\* C36: a retry timer set after a transient failure fires after the
\* retry_delay of the job whose execution failed.
C36_JobRetryDelay ==
    [][\A t \in timers' \ timers :
          t.due - now = jobs[t.task.job.id].retry_delay]_vars

\* ------------------------------------------------- Submit and Stop claims
\* C37: no call of Submit that runs concurrently with Stop sends on the
\* closed task queue; each such call enqueues before the close or returns
\* false.
C37_NoSendOnClosed ==
    api.op = "Submit" => \A c \in Callers : api.at[c] # "panicked"

\* ------------------------------------------------------- progress claims
\* C38: an execution that is running eventually is completed, failed,
\* timeout, cancelled or retrying, whatever the outcome of its HTTP call.
C38_RunningEnds ==
    \A e \in 1..MaxTriggers :
        (e \in ExecIds /\ execs[e].status = "running")
            ~> (e \in ExecIds /\ execs[e].status \in
                    {"completed", "failed", "timeout", "cancelled", "retrying"})

\* C39: an execution that is retrying is re-submitted and eventually reaches
\* a terminal status, also when the task queue is full as its timer fires.
C39_RetryingEnds ==
    \A e \in 1..(QueueCapacity + 1) :
        (e \in ExecIds /\ execs[e].status = "retrying")
            ~> (e \in ExecIds /\ execs[e].status \in Terminal)

\* ------------------------------------------------ attempt counter claims
\* C40: whenever a worker starts an attempt, the persisted attempt of the
\* execution equals the attempt the task carries; and an execution that a
\* worker has brought to completed, failed or timeout has a persisted
\* attempt equal to the number of HTTP requests sent for it.
C40_AttemptMatches ==
    /\ [][\A w \in Workers :
             WorkerStart(ThisReplica, w) => InStep(Head(queue[ThisReplica]))]_vars
    /\ [](\A e \in ExecIds :
             execs[e].status \in {"completed", "failed", "timeout"} =>
                 execs[e].attempt = trace[e].sent)

====
